---- MODULE Spec2Model ----
(***************************************************************************)
(* HeraDesk engine: chat sessions, agent capacity counters, the waiting    *)
(* queue and the session topics, as the handlers of the engine drive them. *)
(* Every awaited Prisma call of a handler is one atomic step; handlers are *)
(* started without being awaited by the websocket dispatcher, so the steps *)
(* of different handlers interleave freely.                                *)
(***************************************************************************)
EXTENDS Integers, Sequences, FiniteSets, TLC

\* ------------------------------------------------------------------ bounds
NumAgents == 2
NumSessions == 2
MaxHandlers == 2
MaxOps == 3
MaxClock == 2
MaxChats == 1
MaxOpsRating == 4
MaxOpsUnattended == 2
MaxOpsFaulty == 3
MaxOpsRooms == 3
MaxOpsLone == 4
MaxOpsCustomer == 3
MaxSockets == 3
MaxSends == 2

\* chat_idle_timeout in clock ticks (one tick of the model clock = 1800 s)
IdleTimeout == 1

NoAgent == 0
NoSession == 0
NoTime == -1
NoRating == 0
NoSocket == 0

Agents == 1..NumAgents
Sessions == 1..NumSessions
Handlers == 1..MaxHandlers
Sockets == 1..MaxSockets

Terminal == {"resolved", "abandoned"}
Open == {"waiting", "active"}

VARIABLES
    status,        \* chatSession.status, "none" before the row exists
    assignedCsId,  \* chatSession.assignedCsId
    createdAt,     \* chatSession.createdAt
    resolvedAt,    \* chatSession.resolvedAt
    rating,        \* chatSession.rating
    messages,      \* message rows of each session, in insertion order
    csState,       \* csStatus.status
    currentChats,  \* csStatus.currentChats
    maxChats,      \* csStatus.maxChats
    lastActiveAt,  \* csStatus.lastActiveAt
    autoAssignEnabled, \* config.features.autoAssignEnabled
    published,     \* chat:message events published on session:<id>, in order
    typing,        \* number of typing events published on session:<id>
    subscribed,    \* session topics the agent's websocket is subscribed to
    chatAssigned,  \* number of notifyChatAssigned calls made for the session
    hs,            \* the running handlers and their local variables
    now,           \* the wall clock
    started,       \* number of handlers started so far
    opBudget,      \* number of handlers the run may start
    ws,            \* WebSocketService.ws of the dashboard client, NoSocket for null
    readyState,    \* readyState of every WebSocket the client has created
    wsStatus,      \* WebSocketService.status
    pendingMessages,   \* WebSocketService.pendingMessages
    reconnectTimer,    \* TRUE while a reconnect timeout is pending
    reconnectAttempts, \* WebSocketService.reconnectAttempts
    transmitted,   \* the messages handed to an open socket's send(), in order
    sendCount      \* number of calls of WebSocketService.send() so far

vars == <<status, assignedCsId, createdAt, resolvedAt, rating, messages,
          csState, currentChats, maxChats, lastActiveAt, autoAssignEnabled,
          published, typing, subscribed, chatAssigned, hs, now, started,
          opBudget, ws, readyState, wsStatus, pendingMessages, reconnectTimer,
          reconnectAttempts, transmitted, sendCount>>

\* the state of the dashboard's WebSocketService and of its sockets
client == <<ws, readyState, wsStatus, pendingMessages, reconnectTimer,
            reconnectAttempts, transmitted, sendCount>>

store == <<status, assignedCsId, createdAt, resolvedAt, rating, messages,
           csState, currentChats, maxChats, lastActiveAt, autoAssignEnabled>>

\* the engine's state, which the dashboard's client code does not touch
engine == <<store, published, typing, subscribed, chatAssigned, hs, now,
            started, opBudget>>

\* WebSocketService as constructed: no socket, nothing pending
NewWebSocketService ==
    /\ ws = NoSocket
    /\ readyState = [k \in Sockets |-> "NONE"]
    /\ wsStatus = "disconnected"
    /\ pendingMessages = <<>>
    /\ reconnectTimer = FALSE
    /\ reconnectAttempts = 0
    /\ transmitted = <<>>
    /\ sendCount = 0

\* ----------------------------------------------------------------- helpers
IdleHandler ==
    [op |-> "none", pc |-> "idle", sid |-> NoSession, cs |-> NoAgent,
     to |-> NoAgent, asid |-> NoSession, acs |-> NoAgent, snap |-> NoAgent,
     qs |-> <<>>, mid |-> 0, val |-> NoRating, act |-> {}, frame |-> <<>>,
     fsid |-> NoSession, content |-> <<>>, topics |-> {}, out |-> <<>>]

\* the content of a frame: a string of blanks and letters
Contents == {<<>>, <<" ">>, <<"h">>, <<" ", "h">>}

\* String.prototype.trim: the blanks at both ends are dropped
RECURSIVE trimStart(_)
trimStart(c) == IF c # <<>> /\ Head(c) = " " THEN trimStart(Tail(c)) ELSE c

RECURSIVE trimEnd(_)
trimEnd(c) ==
    IF c # <<>> /\ c[Len(c)] = " " THEN trimEnd(SubSeq(c, 1, Len(c) - 1)) ELSE c

trim(c) == trimEnd(trimStart(c))

\* !content || content.trim() === ""
EmptyContent(c) == c = <<>> \/ trim(c) = <<>>

\* a session check that only asks for a sessionId
InvalidSession_AnyId(fsid, s) == fsid = NoSession

\* !sessionId || sessionId !== ws.data.sessionId
InvalidSession(fsid, s) == fsid = NoSession \/ fsid # s

Free(h) == hs[h].pc = "idle"
Quiet == \A h \in Handlers : Free(h)

\* a handler at "done" has returned and is writing its frames to the socket:
\* that is synchronous code, nothing else runs until it is through
NoReply == \A g \in Handlers : hs[g].pc # "done"
At(h, pcs) == hs[h].pc \in pcs /\ NoReply

\* a handler that has returned keeps only what it was asked and what it sent
Finish(r, frames) ==
    [IdleHandler EXCEPT !.op = r.op, !.pc = "done", !.sid = r.sid, !.cs = r.cs,
                        !.to = r.to, !.act = r.act, !.frame = r.frame,
                        !.fsid = r.fsid, !.content = r.content,
                        !.topics = r.topics,
                        !.out = r.out \o frames]

\* a customer:send_message handler has written the last row of the session
\* and is still awaiting its next query: a row written now is written within
\* that wait and can carry the same createdAt millisecond
WrittenWithin(s) ==
    \E g \in Handlers :
        /\ hs[g].op = "send" /\ hs[g].pc = "snd_sess"
        /\ hs[g].sid = s /\ hs[g].mid = Len(messages[s])

\* prisma.message.create: createdAt defaults to now(); late records whether
\* the session row was already resolved or abandoned when the row was written,
\* tied whether createdAt can equal that of the row before
Msg(s, senderType, kind) ==
    [senderType |-> senderType, kind |-> kind, createdAt |-> now,
     late |-> status[s] \in Terminal, tied |-> WrittenWithin(s)]

MessageCreate(s, senderType, kind) ==
    messages' = [messages EXCEPT ![s] = Append(@, Msg(s, senderType, kind))]

\* requests made over HTTP (routes/cs.ts) rather than on the websocket
HttpOps == {"httpaccept", "httpresolve", "httptransfer"}

\* subscribeCsToSession(ws, id), subscribeCsToSessionByUserId(userId, id)
subscribeCsToSession(a, s) ==
    subscribed' = [subscribed EXCEPT ![a] = @ \cup {s}]

\* subscribeCustomerToSession(ws, id): ws.data.sessionId is set by the caller
\* and here, the topic is added to those of the socket
subscribeCustomerToSession(topics, s) == topics \cup {s}

\* unsubscribeFromRooms(ws) for an agent's socket: cs:<userId>, queue and
\* broadcast are unsubscribed, no session topic is; what is left of topics
unsubscribeFromRooms(topics) == topics \ {}

\* unsubscribeCsFromSession(ws, id)
unsubscribeCsFromSession(a, s) ==
    subscribed' = [subscribed EXCEPT ![a] = @ \ {s}]

\* notifyChatAssigned: chat:assigned is published on session:<id> and
\* chat:new_assigned on cs:<csId>
notifyChatAssigned(s) ==
    chatAssigned' = [chatAssigned EXCEPT ![s] = @ + 1]

\* server.publish(`session:${id}`, chat:message)
notifyNewMessage(s, mid) ==
    published' = [published EXCEPT ![s] = Append(@, mid)]

Perms(S) ==
    {q \in [1..Cardinality(S) -> S] : \A i, j \in 1..Cardinality(S) : i # j => q[i] # q[j]}

\* --------------------------------------------------------------------- Init
\* the csStatus rows were last written before the run, one agent after the
\* other
FirstActiveAt(a) == a - NumAgents - 2

Init ==
    /\ status = [s \in Sessions |-> "none"]
    /\ assignedCsId = [s \in Sessions |-> NoAgent]
    /\ createdAt = [s \in Sessions |-> NoTime]
    /\ resolvedAt = [s \in Sessions |-> NoTime]
    /\ rating = [s \in Sessions |-> NoRating]
    /\ messages = [s \in Sessions |-> <<>>]
    /\ csState \in [Agents -> {"online", "offline"}]
    /\ currentChats = [a \in Agents |-> 0]
    /\ maxChats = [a \in Agents |-> MaxChats]
    /\ lastActiveAt = [a \in Agents |-> FirstActiveAt(a)]
    /\ autoAssignEnabled \in BOOLEAN
    /\ published = [s \in Sessions |-> <<>>]
    /\ typing = [s \in Sessions |-> 0]
    /\ subscribed = [a \in Agents |-> {}]
    /\ chatAssigned = [s \in Sessions |-> 0]
    /\ hs = [h \in Handlers |-> IdleHandler]
    /\ now = 0
    /\ started = 0
    /\ opBudget = MaxOps
    /\ NewWebSocketService

\* the connection is bound to the session once initChat has returned
Bound(s) == status[s] # "none" /\ messages[s] # <<>>

CanStart(h) == Free(h) /\ NoReply /\ started < opBudget

Begin(h, r) ==
    /\ hs' = [hs EXCEPT ![h] = r]
    /\ started' = started + 1
    /\ UNCHANGED <<opBudget, client>>

Step(h, r) ==
    /\ hs' = [hs EXCEPT ![h] = r]
    /\ UNCHANGED <<started, opBudget, client>>

\* ------------------------------------------------- customer:start_chat
\* initChat: prisma.chatSession.create
initChat(h) ==
    /\ CanStart(h)
    /\ \E s \in Sessions :
        /\ status[s] = "none"
        /\ \A t \in Sessions : t < s => status[t] # "none"
        /\ status' = [status EXCEPT ![s] = "waiting"]
        /\ createdAt' = [createdAt EXCEPT ![s] = now]
        /\ Begin(h, [IdleHandler EXCEPT !.op = "start", !.pc = "init_msg",
                                        !.sid = s, !.asid = s])
    /\ UNCHANGED <<assignedCsId, resolvedAt, messages, csState, currentChats,
                   maxChats, lastActiveAt, autoAssignEnabled, rating, published, typing, subscribed, chatAssigned, now>>

\* customer:start_chat on a connection that is already bound to a session
\* p (by an earlier start_chat or by its token): the socket is subscribed to
\* session:<p> when initChat creates the new session
handleCustomerStartChat(h) ==
    /\ CanStart(h)
    /\ \E p \in Sessions, s \in Sessions :
        /\ Bound(p)
        /\ status[s] = "none"
        /\ \A t \in Sessions : t < s => status[t] # "none"
        /\ status' = [status EXCEPT ![s] = "waiting"]
        /\ createdAt' = [createdAt EXCEPT ![s] = now]
        /\ Begin(h, [IdleHandler EXCEPT !.op = "start", !.pc = "init_msg",
                                        !.sid = s, !.asid = s, !.topics = {p}])
    /\ UNCHANGED <<assignedCsId, resolvedAt, messages, csState, currentChats,
                   maxChats, lastActiveAt, autoAssignEnabled, rating, published,
                   typing, subscribed, chatAssigned, now>>

\* initChat: prisma.message.create of the welcome message; the handler then
\* records the session in ws.data and subscribes the socket to its topic;
\* autoAssignChat is entered (its query is the next step)
initChatMessage(h) ==
    /\ At(h, {"init_msg"})
    /\ MessageCreate(hs[h].sid, "system", "started")
    /\ LET r == [hs[h] EXCEPT !.topics = subscribeCustomerToSession(@, hs[h].sid)]
       IN  IF autoAssignEnabled
             THEN Step(h, [r EXCEPT !.pc = "auto_find"])
             ELSE Step(h, Finish(r, <<"chat:queue_position", "chat:started">>))
    /\ UNCHANGED <<status, assignedCsId, createdAt, resolvedAt, csState,
                   currentChats, maxChats, lastActiveAt, autoAssignEnabled, rating, published, typing, subscribed, chatAssigned, now>>

\* ------------------------------------------------------------ autoAssignChat
csWithCapacity == {a \in Agents : csState[a] = "online" /\ currentChats[a] < maxChats[a]}

\* orderBy currentChats asc, first row; rows that tie come in any order
selectedCS == {a \in csWithCapacity : \A b \in csWithCapacity : currentChats[a] <= currentChats[b]}

\* the end of processQueue: handleCsSetStatus then confirms the status and
\* sends the queue, handleCsResolveChat has already replied
QueueDone(r) ==
    Finish(r, IF r.op = "status" THEN <<"status:updated", "queue:update">> ELSE <<>>)

\* what the caller of autoAssignChat does when it returns null
NoneAvailable(r) ==
    IF r.op = "start"
      THEN Finish(r, <<"chat:queue_position", "chat:started">>)
      ELSE QueueDone(r)

\* an autoAssignChat that finds no agent whatever the store holds
autoAssignChat_NeverAssigns(h) ==
    /\ At(h, {"auto_find"})
    /\ Step(h, NoneAvailable(hs[h]))
    /\ UNCHANGED <<store, published, typing, subscribed, chatAssigned, now>>

autoAssignChat(h) ==
    /\ At(h, {"auto_find"})
    /\ IF csWithCapacity = {}
         THEN Step(h, NoneAvailable(hs[h]))
         ELSE \E a \in selectedCS :
                Step(h, [hs[h] EXCEPT !.pc = "assign_upd", !.acs = a])
    /\ UNCHANGED <<store, published, typing, subscribed, chatAssigned, now>>

\* ---------------------------------------------------------------- assignChat
\* prisma.chatSession.update({where: {id}}): throws when the row is missing
assignChatUpdate(h) ==
    /\ At(h, {"assign_upd"})
    /\ LET s == hs[h].asid IN
        /\ status[s] # "none"
        /\ status' = [status EXCEPT ![s] = "active"]
        /\ assignedCsId' = [assignedCsId EXCEPT ![s] = hs[h].acs]
    /\ Step(h, [hs[h] EXCEPT !.pc = "assign_inc"])
    /\ UNCHANGED <<createdAt, resolvedAt, messages, csState, currentChats,
                   maxChats, lastActiveAt, autoAssignEnabled, rating, published, typing, subscribed, chatAssigned, now>>

assignChatIncrement(h) ==
    /\ At(h, {"assign_inc"})
    /\ currentChats' = [currentChats EXCEPT ![hs[h].acs] = @ + 1]
    /\ Step(h, [hs[h] EXCEPT !.pc = "assign_msg"])
    /\ UNCHANGED <<status, assignedCsId, createdAt, resolvedAt, messages,
                   csState, maxChats, lastActiveAt, autoAssignEnabled, rating, published, typing, subscribed, chatAssigned, now>>

\* what follows the return of assignChat in each caller: handleCsAcceptChat
\* and autoAssignChat subscribe the agent (assignChatMessage), the HTTP route
\* does not; all of them call notifyChatAssigned
AfterAssign(r) ==
    CASE r.op = "start" -> Finish(r, <<"chat:assigned", "chat:started">>)
      [] r.op = "accept" -> Finish(r, <<"chat:accepted">>)
      [] r.op = "httpaccept" -> Finish(r, <<"200">>)
      [] OTHER ->
           IF Len(r.qs) > 1
             THEN [r EXCEPT !.pc = "auto_find", !.qs = Tail(@),
                            !.asid = r.qs[2].sid, !.acs = NoAgent]
             ELSE QueueDone(r)

assignChatMessage(h) ==
    /\ At(h, {"assign_msg"})
    /\ MessageCreate(hs[h].asid, "system", "joined")
    /\ IF hs[h].op \in HttpOps
         THEN UNCHANGED subscribed
         ELSE subscribeCsToSession(hs[h].acs, hs[h].asid)
    /\ notifyChatAssigned(hs[h].asid)
    /\ Step(h, AfterAssign(hs[h]))
    /\ UNCHANGED <<status, assignedCsId, createdAt, resolvedAt, csState,
                   currentChats, maxChats, lastActiveAt, autoAssignEnabled, rating, published, typing, now>>

\* ------------------------------------------------------------ cs:accept_chat
\* handleCsAcceptChat with the capacity comparison off by one (> for >=)
handleCsAcceptChat_OffByOne(h) ==
    /\ CanStart(h)
    /\ \E a \in Agents, s \in Sessions :
        LET r == [IdleHandler EXCEPT !.op = "accept", !.sid = s, !.cs = a,
                                     !.asid = s, !.acs = a]
        IN  Begin(h, IF csState[a] # "online"
                       THEN Finish(r, <<"NOT_ONLINE">>)
                     ELSE IF currentChats[a] > maxChats[a]
                       THEN Finish(r, <<"AT_CAPACITY">>)
                     ELSE [r EXCEPT !.pc = "acc_sess"])
    /\ UNCHANGED <<store, published, typing, subscribed, chatAssigned, now>>

\* getCsStatus(userId) and the two capacity checks
handleCsAcceptChat(h) ==
    /\ CanStart(h)
    /\ \E a \in Agents, s \in Sessions :
        LET r == [IdleHandler EXCEPT !.op = "accept", !.sid = s, !.cs = a,
                                     !.asid = s, !.acs = a]
        IN  Begin(h, IF csState[a] # "online"
                       THEN Finish(r, <<"NOT_ONLINE">>)
                     ELSE IF currentChats[a] >= maxChats[a]
                       THEN Finish(r, <<"AT_CAPACITY">>)
                     ELSE [r EXCEPT !.pc = "acc_sess"])
    /\ UNCHANGED <<store, published, typing, subscribed, chatAssigned, now>>

\* POST /api/cs/chats/:id/accept: getCsStatus and the capacity check
httpAcceptChat(h) ==
    /\ CanStart(h)
    /\ \E a \in Agents, s \in Sessions :
        LET r == [IdleHandler EXCEPT !.op = "httpaccept", !.sid = s, !.cs = a,
                                     !.asid = s, !.acs = a]
        IN  Begin(h, IF csState[a] # "online" \/ currentChats[a] >= maxChats[a]
                       THEN Finish(r, <<"400">>)
                       ELSE [r EXCEPT !.pc = "acc_sess"])
    /\ UNCHANGED <<store, published, typing, subscribed, chatAssigned, now>>

\* getSessionById(sessionId) and the status check
acceptGetSession(h) ==
    /\ At(h, {"acc_sess"})
    /\ Step(h, IF hs[h].op = "httpaccept" /\ status[hs[h].sid] # "waiting"
                 THEN Finish(hs[h], <<"400">>)
               ELSE IF status[hs[h].sid] = "none"
                 THEN Finish(hs[h], <<"SESSION_NOT_FOUND">>)
               ELSE IF status[hs[h].sid] # "waiting"
                 THEN Finish(hs[h], <<"ALREADY_ASSIGNED">>)
               ELSE [hs[h] EXCEPT !.pc = "assign_upd"])
    /\ UNCHANGED <<store, published, typing, subscribed, chatAssigned, now>>

\* ------------------------------------------------------------- processQueue
\* getQueue: the waiting sessions ordered by createdAt
WaitingSet == {s \in Sessions : status[s] = "waiting"}

getQueue ==
    {q \in Perms(WaitingSet) :
        \A i, j \in 1..Len(q) : i < j => createdAt[q[i]] <= createdAt[q[j]]}

QueueItem(s, a) == [sid |-> s, asg |-> a]

processQueue(h) ==
    /\ At(h, {"pq_get"})
    /\ \E q \in getQueue :
         Step(h, IF q = <<>>
                   THEN QueueDone(hs[h])
                   ELSE [hs[h] EXCEPT !.pc = "auto_find", !.asid = q[1],
                                      !.acs = NoAgent,
                                      !.qs = [i \in 1..Len(q) |-> QueueItem(q[i], NoAgent)]])
    /\ UNCHANGED <<store, published, typing, subscribed, chatAssigned, now>>

\* processQueue returns at once when auto-assignment is switched off
EnterProcessQueue(r, frames) ==
    IF autoAssignEnabled
      THEN [r EXCEPT !.pc = "pq_get", !.out = @ \o frames]
      ELSE QueueDone([r EXCEPT !.out = @ \o frames])

\* ----------------------------------------------------------- cs:resolve_chat
\* resolveChat: findUnique and the ownership check
resolveChat(h) ==
    /\ CanStart(h)
    /\ \E a \in Agents, s \in Sessions :
        LET r == [IdleHandler EXCEPT !.op = "resolve", !.sid = s, !.cs = a]
        IN  Begin(h, IF status[s] = "none" \/ assignedCsId[s] # a
                       THEN Finish(r, <<"RESOLVE_FAILED">>)
                       ELSE [r EXCEPT !.pc = "res_upd"])
    /\ UNCHANGED <<store, published, typing, subscribed, chatAssigned, now>>

\* POST /api/cs/chats/:id/resolve: resolveChat's findUnique and ownership check
httpResolveChat(h) ==
    /\ CanStart(h)
    /\ \E a \in Agents, s \in Sessions :
        LET r == [IdleHandler EXCEPT !.op = "httpresolve", !.sid = s, !.cs = a]
        IN  Begin(h, IF status[s] = "none" \/ assignedCsId[s] # a
                       THEN Finish(r, <<"400">>)
                       ELSE [r EXCEPT !.pc = "res_upd"])
    /\ UNCHANGED <<store, published, typing, subscribed, chatAssigned, now>>

resolveChatUpdate(h) ==
    /\ At(h, {"res_upd"})
    /\ status' = [status EXCEPT ![hs[h].sid] = "resolved"]
    /\ resolvedAt' = [resolvedAt EXCEPT ![hs[h].sid] = now]
    /\ Step(h, [hs[h] EXCEPT !.pc = "res_dec"])
    /\ UNCHANGED <<assignedCsId, createdAt, messages, csState, currentChats,
                   maxChats, lastActiveAt, autoAssignEnabled, rating, published, typing, subscribed, chatAssigned, now>>

resolveChatDecrement(h) ==
    /\ At(h, {"res_dec"})
    /\ currentChats' = [currentChats EXCEPT ![hs[h].cs] = @ - 1]
    /\ Step(h, [hs[h] EXCEPT !.pc = "res_msg"])
    /\ UNCHANGED <<status, assignedCsId, createdAt, resolvedAt, messages,
                   csState, maxChats, lastActiveAt, autoAssignEnabled, rating, published, typing, subscribed, chatAssigned, now>>

\* the system message, then the activity log row; when that returns the
\* websocket handler unsubscribes its socket, replies chat:resolved and enters
\* processQueue; the HTTP route answers
resolveChatMessage(h) ==
    /\ At(h, {"res_msg"})
    /\ MessageCreate(hs[h].sid, "system", "resolved")
    /\ IF hs[h].op \in HttpOps
         THEN /\ UNCHANGED subscribed
              /\ Step(h, Finish(hs[h], <<"200">>))
         ELSE /\ unsubscribeCsFromSession(hs[h].cs, hs[h].sid)
              /\ Step(h, EnterProcessQueue(hs[h], <<"chat:resolved">>))
    /\ UNCHANGED <<status, assignedCsId, createdAt, resolvedAt, csState,
                   currentChats, maxChats, lastActiveAt, autoAssignEnabled, rating, published, typing, chatAssigned, now>>

\* ---------------------------------------------------------- cs:transfer_chat
\* handleCsTransferChat without the capacity check of the target
handleCsTransferChat_NoCapacity(h) ==
    /\ CanStart(h)
    /\ \E a \in Agents, t \in Agents, s \in Sessions :
        LET r == [IdleHandler EXCEPT !.op = "transfer", !.sid = s, !.cs = a,
                                     !.to = t]
        IN  Begin(h, IF csState[t] # "online"
                       THEN Finish(r, <<"TARGET_NOT_ONLINE">>)
                       ELSE [r EXCEPT !.pc = "tr_sess"])
    /\ UNCHANGED <<store, published, typing, subscribed, chatAssigned, now>>

\* getCsStatus(toCsId) and the availability checks of the target
handleCsTransferChat(h) ==
    /\ CanStart(h)
    /\ \E a \in Agents, t \in Agents, s \in Sessions :
        LET r == [IdleHandler EXCEPT !.op = "transfer", !.sid = s, !.cs = a,
                                     !.to = t]
        IN  Begin(h, IF csState[t] # "online"
                       THEN Finish(r, <<"TARGET_NOT_ONLINE">>)
                     ELSE IF currentChats[t] >= maxChats[t]
                       THEN Finish(r, <<"TARGET_AT_CAPACITY">>)
                     ELSE [r EXCEPT !.pc = "tr_sess"])
    /\ UNCHANGED <<store, published, typing, subscribed, chatAssigned, now>>

\* POST /api/cs/chats/:id/transfer: getCsStatus(toCsId) and the availability
\* check of the target
httpTransferChat(h) ==
    /\ CanStart(h)
    /\ \E a \in Agents, t \in Agents, s \in Sessions :
        LET r == [IdleHandler EXCEPT !.op = "httptransfer", !.sid = s, !.cs = a,
                                     !.to = t]
        IN  Begin(h, IF csState[t] # "online" \/ currentChats[t] >= maxChats[t]
                       THEN Finish(r, <<"400">>)
                       ELSE [r EXCEPT !.pc = "tr_sess"])
    /\ UNCHANGED <<store, published, typing, subscribed, chatAssigned, now>>

\* transferChat: findUnique and the ownership check (the target user exists)
transferChat(h) ==
    /\ At(h, {"tr_sess"})
    /\ Step(h, IF status[hs[h].sid] = "none" \/ assignedCsId[hs[h].sid] # hs[h].cs
                 THEN Finish(hs[h], IF hs[h].op \in HttpOps
                                      THEN <<"400">> ELSE <<"TRANSFER_FAILED">>)
                 ELSE [hs[h] EXCEPT !.pc = "tr_upd"])
    /\ UNCHANGED <<store, published, typing, subscribed, chatAssigned, now>>

transferChatUpdate(h) ==
    /\ At(h, {"tr_upd"})
    /\ assignedCsId' = [assignedCsId EXCEPT ![hs[h].sid] = hs[h].to]
    /\ Step(h, [hs[h] EXCEPT !.pc = "tr_both"])
    /\ UNCHANGED <<status, createdAt, resolvedAt, messages, csState,
                   currentChats, maxChats, lastActiveAt, autoAssignEnabled, rating, published, typing, subscribed, chatAssigned, now>>

\* Promise.all of the two counter updates: they reach the store in either order
transferChatDecrement(h) ==
    /\ At(h, {"tr_both", "tr_dec"})
    /\ currentChats' = [currentChats EXCEPT ![hs[h].cs] = @ - 1]
    /\ Step(h, [hs[h] EXCEPT !.pc = IF hs[h].pc = "tr_both" THEN "tr_inc" ELSE "tr_msg"])
    /\ UNCHANGED <<status, assignedCsId, createdAt, resolvedAt, messages,
                   csState, maxChats, lastActiveAt, autoAssignEnabled, rating, published, typing, subscribed, chatAssigned, now>>

transferChatIncrement(h) ==
    /\ At(h, {"tr_both", "tr_inc"})
    /\ currentChats' = [currentChats EXCEPT ![hs[h].to] = @ + 1]
    /\ Step(h, [hs[h] EXCEPT !.pc = IF hs[h].pc = "tr_both" THEN "tr_dec" ELSE "tr_msg"])
    /\ UNCHANGED <<status, assignedCsId, createdAt, resolvedAt, messages,
                   csState, maxChats, lastActiveAt, autoAssignEnabled, rating, published, typing, subscribed, chatAssigned, now>>

transferChatMessage(h) ==
    /\ At(h, {"tr_msg"})
    /\ MessageCreate(hs[h].sid, "system", "transferred")
    /\ IF hs[h].op \in HttpOps
         THEN /\ UNCHANGED subscribed
              /\ Step(h, Finish(hs[h], <<"200">>))
         ELSE /\ unsubscribeCsFromSession(hs[h].cs, hs[h].sid)
              /\ Step(h, Finish(hs[h], <<"chat:transferred_out">>))
    /\ UNCHANGED <<status, assignedCsId, createdAt, resolvedAt, csState,
                   currentChats, maxChats, lastActiveAt, autoAssignEnabled, rating, published, typing, chatAssigned, now>>

\* --------------------------------------------------------- customer:end_chat

\* getSessionByToken, for the agent to notify
handleCustomerEndChat(h) ==
    /\ CanStart(h)
    /\ \E s \in Sessions, fsid \in Sessions \cup {NoSession} :
        LET r == [IdleHandler EXCEPT !.op = "end", !.sid = s, !.fsid = fsid]
        IN  /\ Bound(s)
            /\ Begin(h, IF InvalidSession(fsid, s)
                           THEN Finish(r, <<"INVALID_SESSION">>)
                           ELSE [r EXCEPT !.pc = "end_find", !.cs = assignedCsId[s]])
    /\ UNCHANGED <<store, published, typing, subscribed, chatAssigned, now>>

\* endChat: findUnique; only a waiting or active session is updated
endChat(h) ==
    /\ At(h, {"end_find"})
    /\ Step(h, IF status[hs[h].sid] \in Open
                 THEN [hs[h] EXCEPT !.pc = "end_upd", !.snap = assignedCsId[hs[h].sid]]
                 ELSE Finish(hs[h], <<"chat:ended">>))
    /\ UNCHANGED <<store, published, typing, subscribed, chatAssigned, now>>

endChatUpdate(h) ==
    /\ At(h, {"end_upd"})
    /\ status' = [status EXCEPT ![hs[h].sid] = "abandoned"]
    /\ resolvedAt' = [resolvedAt EXCEPT ![hs[h].sid] = now]
    /\ Step(h, [hs[h] EXCEPT !.pc = IF hs[h].snap # NoAgent THEN "end_dec" ELSE "end_msg"])
    /\ UNCHANGED <<assignedCsId, createdAt, messages, csState, currentChats,
                   maxChats, lastActiveAt, autoAssignEnabled, rating, published, typing, subscribed, chatAssigned, now>>

endChatDecrement(h) ==
    /\ At(h, {"end_dec"})
    /\ currentChats' = [currentChats EXCEPT ![hs[h].snap] = @ - 1]
    /\ Step(h, [hs[h] EXCEPT !.pc = "end_msg"])
    /\ UNCHANGED <<status, assignedCsId, createdAt, resolvedAt, messages,
                   csState, maxChats, lastActiveAt, autoAssignEnabled, rating, published, typing, subscribed, chatAssigned, now>>

endChatMessage(h) ==
    /\ At(h, {"end_msg"})
    /\ MessageCreate(hs[h].sid, "system", "left")
    /\ Step(h, Finish(hs[h], <<"chat:ended">>))
    /\ UNCHANGED <<status, assignedCsId, createdAt, resolvedAt, csState,
                   currentChats, maxChats, lastActiveAt, autoAssignEnabled, rating, published, typing, subscribed, chatAssigned, now>>

\* ------------------------------------------------------------------ messages
\* a status check that takes only an active session
SendCheck_ActiveOnly(r, s) ==
    IF status[s] # "active"
      THEN Finish(r, <<"SEND_FAILED">>)
      ELSE [r EXCEPT !.pc = "snd_ins"]

\* sendMessage: findUnique and the status check
SendCheck(r, s) ==
    IF status[s] \notin Open
      THEN Finish(r, <<"SEND_FAILED">>)
      ELSE [r EXCEPT !.pc = "snd_ins"]

\* customer:send_message on the connection's own session
handleCustomerSendMessage(h) ==
    /\ CanStart(h)
    /\ \E s \in Sessions, fsid \in Sessions \cup {NoSession}, c \in Contents :
        LET r == [IdleHandler EXCEPT !.op = "send", !.sid = s, !.fsid = fsid]
        IN  /\ Bound(s)
            /\ Begin(h, IF InvalidSession(fsid, s)
                           THEN Finish(r, <<"INVALID_SESSION">>)
                           ELSE IF EmptyContent(c)
                             THEN Finish([r EXCEPT !.content = c], <<"EMPTY_MESSAGE">>)
                             ELSE SendCheck([r EXCEPT !.content = trim(c)], s))
    /\ UNCHANGED <<store, published, typing, subscribed, chatAssigned, now>>

\* cs:send_message: getSessionById and the ownership check
handleCsSendMessage(h) ==
    /\ CanStart(h)
    /\ \E a \in Agents, s \in Sessions, c \in Contents :
        LET r == [IdleHandler EXCEPT !.op = "cssend", !.sid = s, !.cs = a,
                                     !.fsid = s]
        IN  Begin(h, IF EmptyContent(c)
                       THEN Finish([r EXCEPT !.content = c], <<"EMPTY_MESSAGE">>)
                       ELSE IF status[s] = "none" \/ assignedCsId[s] # a
                         THEN Finish([r EXCEPT !.content = trim(c)], <<"NOT_ASSIGNED">>)
                         ELSE [r EXCEPT !.pc = "css_find", !.content = trim(c)])
    /\ UNCHANGED <<store, published, typing, subscribed, chatAssigned, now>>

csSendCheck(h) ==
    /\ At(h, {"css_find"})
    /\ Step(h, SendCheck(hs[h], hs[h].sid))
    /\ UNCHANGED <<store, published, typing, subscribed, chatAssigned, now>>

\* sendMessage: prisma.message.create; the agent's handler publishes as soon
\* as it returns, the customer's handler first reads the session again
sendMessage(h) ==
    /\ At(h, {"snd_ins"})
    /\ LET s == hs[h].sid
           mid == Len(messages[s]) + 1
       IN  IF hs[h].op = "cssend"
             THEN /\ MessageCreate(s, "cs", "text")
                  /\ notifyNewMessage(s, mid)
                  /\ Step(h, Finish(hs[h], <<"message:sent">>))
             ELSE /\ MessageCreate(s, "customer", "text")
                  /\ UNCHANGED published
                  /\ Step(h, [hs[h] EXCEPT !.pc = "snd_sess", !.mid = mid])
    /\ UNCHANGED <<status, assignedCsId, createdAt, resolvedAt, csState,
                   currentChats, maxChats, lastActiveAt, autoAssignEnabled, rating, typing, subscribed, chatAssigned, now>>

\* getSessionByToken: the message is published only if an agent is assigned
customerNotify(h) ==
    /\ At(h, {"snd_sess"})
    /\ IF assignedCsId[hs[h].sid] # NoAgent
         THEN notifyNewMessage(hs[h].sid, hs[h].mid)
         ELSE UNCHANGED published
    /\ Step(h, Finish(hs[h], <<"message:sent">>))
    /\ UNCHANGED <<store, typing, subscribed, chatAssigned, now>>

\* ------------------------------------------------------------- cs:set_status
\* updateCsStatus: the upsert; going online enters processQueue
handleCsSetStatus(h) ==
    /\ CanStart(h)
    /\ \E a \in Agents, st \in {"online", "busy", "offline"} :
        /\ csState' = [csState EXCEPT ![a] = st]
        /\ lastActiveAt' = [lastActiveAt EXCEPT ![a] = now]
        /\ LET r == [IdleHandler EXCEPT !.op = "status", !.cs = a]
           IN  Begin(h, IF st = "online"
                          THEN EnterProcessQueue(r, <<>>)
                          ELSE Finish(r, <<"status:updated">>))
    /\ UNCHANGED <<status, assignedCsId, createdAt, resolvedAt, messages,
                   currentChats, maxChats, autoAssignEnabled, rating, published, typing, subscribed, chatAssigned, now>>

\* ----------------------------------------------------------------- cs:typing
\* handleCsTyping: notifyTyping(sessionId, "cs", isTyping) for any session id
\* the frame names; the handler has no await and sends nothing back
handleCsTyping(h) ==
    /\ CanStart(h)
    /\ \E a \in Agents, s \in Sessions :
        /\ typing' = [typing EXCEPT ![s] = @ + 1]
        /\ Begin(h, Finish([IdleHandler EXCEPT !.op = "typing", !.sid = s, !.cs = a], <<>>))
    /\ UNCHANGED <<store, published, subscribed, chatAssigned, now>>

\* ----------------------------------------------------------- customer:rating
\* the ratings a client may send: below the range, inside it, above it
RatingInputs == {0, 1, 5, 6}

\* handleCustomerRating (and POST /api/chat/rating): the range check
handleCustomerRating(h) ==
    /\ CanStart(h)
    /\ \E s \in Sessions, v \in RatingInputs :
        /\ Bound(s)
        /\ LET r == [IdleHandler EXCEPT !.op = "rating", !.sid = s, !.val = v]
           IN  Begin(h, IF v = 0 \/ v < 1 \/ v > 5
                          THEN Finish(r, <<"INVALID_RATING">>)
                          ELSE [r EXCEPT !.pc = "rate_find"])
    /\ UNCHANGED <<store, published, typing, subscribed, chatAssigned, now>>

\* submitRating: findUnique by customerToken and the status check
submitRating(h) ==
    /\ At(h, {"rate_find"})
    /\ Step(h, IF status[hs[h].sid] # "resolved"
                 THEN Finish(hs[h], <<"RATING_FAILED">>)
                 ELSE [hs[h] EXCEPT !.pc = "rate_upd"])
    /\ UNCHANGED <<store, published, typing, subscribed, chatAssigned, now>>

\* submitRating: prisma.chatSession.update of rating and feedback
submitRatingUpdate(h) ==
    /\ At(h, {"rate_upd"})
    /\ rating' = [rating EXCEPT ![hs[h].sid] = hs[h].val]
    /\ Step(h, Finish(hs[h], <<"rating:submitted">>))
    /\ UNCHANGED <<status, assignedCsId, createdAt, resolvedAt, messages, csState,
                   currentChats, maxChats, lastActiveAt, autoAssignEnabled, published, typing, subscribed, chatAssigned, now>>

\* ------------------------------------------------------- connections closing
\* handleCustomerDisconnect with the session ended on the way out
handleCustomerDisconnect_Ends(h) ==
    /\ CanStart(h)
    /\ \E s \in Sessions :
        /\ Bound(s)
        /\ status' = [status EXCEPT ![s] = IF @ \in Open THEN "abandoned" ELSE @]
        /\ Begin(h, Finish([IdleHandler EXCEPT !.op = "disconnect", !.sid = s],
                           IF status[s] \in Open /\ assignedCsId[s] # NoAgent
                             THEN <<"chat:customer_left">> ELSE <<>>))
    /\ UNCHANGED <<assignedCsId, createdAt, resolvedAt, messages, csState, currentChats,
                   maxChats, lastActiveAt, autoAssignEnabled, rating, published, typing, subscribed, chatAssigned, now>>

\* handleCustomerDisconnect: getSessionByToken, then chat:customer_left to the
\* assigned agent of a waiting or active session; nothing is written
handleCustomerDisconnect(h) ==
    /\ CanStart(h)
    /\ \E s \in Sessions :
        /\ Bound(s)
        /\ Begin(h, Finish([IdleHandler EXCEPT !.op = "disconnect", !.sid = s],
                           IF status[s] \in Open /\ assignedCsId[s] # NoAgent
                             THEN <<"chat:customer_left">> ELSE <<>>))
    /\ UNCHANGED <<store, published, typing, subscribed, chatAssigned, now>>

\* handleCsDisconnect with the agent's counter released as well
handleCsDisconnect_Releases(h) ==
    /\ CanStart(h)
    /\ \E a \in Agents :
        /\ csState' = [csState EXCEPT ![a] = "offline"]
        /\ lastActiveAt' = [lastActiveAt EXCEPT ![a] = now]
        /\ currentChats' = [currentChats EXCEPT ![a] = 0]
        /\ subscribed' = [subscribed EXCEPT ![a] = {}]
        /\ Begin(h, Finish([IdleHandler EXCEPT
                               !.op = "csdisconnect", !.cs = a,
                               !.topics = unsubscribeFromRooms(subscribed[a])], <<>>))
    /\ UNCHANGED <<status, assignedCsId, createdAt, resolvedAt, messages,
                   maxChats, autoAssignEnabled, rating, published, typing, chatAssigned, now>>

\* websocketHandler.close and handleCsDisconnect: unsubscribeFromRooms, then
\* updateCsStatus(userId, "offline"); topics are the session topics the closed
\* socket was not unsubscribed from, and the agent has no open socket left
handleCsDisconnect(h) ==
    /\ CanStart(h)
    /\ \E a \in Agents :
        /\ csState' = [csState EXCEPT ![a] = "offline"]
        /\ lastActiveAt' = [lastActiveAt EXCEPT ![a] = now]
        /\ subscribed' = [subscribed EXCEPT ![a] = {}]
        /\ Begin(h, Finish([IdleHandler EXCEPT
                               !.op = "csdisconnect", !.cs = a,
                               !.topics = unsubscribeFromRooms(subscribed[a])], <<>>))
    /\ UNCHANGED <<status, assignedCsId, createdAt, resolvedAt, messages,
                   currentChats, maxChats, autoAssignEnabled, rating, published, typing, chatAssigned, now>>

\* ------------------------------------------------------- connections opening
\* handleCsConnect: getCsStatus(userId)
handleCsConnect(h) ==
    /\ CanStart(h)
    /\ \E a \in Agents :
        Begin(h, [IdleHandler EXCEPT !.op = "connect", !.pc = "con_act", !.cs = a])
    /\ UNCHANGED <<store, published, typing, subscribed, chatAssigned, now>>

\* getActiveChatsForCS: the sessions with assignedCsId = csId and status
\* active; the socket is subscribed to each of them
getActiveChatsForCS(h) ==
    /\ At(h, {"con_act"})
    /\ LET act == {s \in Sessions : assignedCsId[s] = hs[h].cs /\ status[s] = "active"}
       IN  /\ Step(h, [hs[h] EXCEPT !.pc = "con_q", !.act = act])
           /\ subscribed' = [subscribed EXCEPT ![hs[h].cs] = @ \cup act]
    /\ UNCHANGED <<store, published, typing, chatAssigned, now>>

\* handleCsConnect: getQueue, then the cs:connected frame
csConnected(h) ==
    /\ At(h, {"con_q"})
    /\ Step(h, Finish(hs[h], <<"cs:connected">>))
    /\ UNCHANGED <<store, published, typing, subscribed, chatAssigned, now>>

\* ------------------------------------------- customer connecting with a token
\* rows i < j of a session that can carry one and the same createdAt
SameCreatedAt(s, i, j) == \A k \in (i + 1)..j : messages[s][k].tied

\* include messages orderBy createdAt asc: the rows (by their position in the
\* table) sorted by createdAt; rows with equal createdAt come in any order
MessagesByCreatedAt(s) ==
    {q \in Perms(1..Len(messages[s])) :
        \A a, b \in 1..Len(messages[s]) :
            (a < b /\ q[a] > q[b]) => SameCreatedAt(s, q[b], q[a])}

\* handleCustomerReconnect with session:restored carrying no messages
handleCustomerReconnect_Empty(h) ==
    /\ CanStart(h)
    /\ \E s \in Sessions \cup {NoSession} :
        LET r == [IdleHandler EXCEPT !.op = "reconnect"]
        IN  IF s = NoSession \/ status[s] = "none"
              THEN Begin(h, Finish(r, <<"SESSION_NOT_FOUND">>))
              ELSE Begin(h, Finish([r EXCEPT !.sid = s,
                                              !.topics = subscribeCustomerToSession({}, s)],
                                   <<"session:restored">>))
    /\ UNCHANGED <<store, published, typing, subscribed, chatAssigned, now>>

\* handleCustomerReconnect: getSessionByToken(customerToken); an unknown token
\* is answered SESSION_NOT_FOUND, a known one binds the connection to the
\* session and is sent session:restored with the messages as the query
\* returned them
handleCustomerReconnect(h) ==
    /\ CanStart(h)
    /\ \E s \in Sessions \cup {NoSession} :
        LET r == [IdleHandler EXCEPT !.op = "reconnect"]
        IN  IF s = NoSession \/ status[s] = "none"
              THEN Begin(h, Finish(r, <<"SESSION_NOT_FOUND">>))
              ELSE \E q \in MessagesByCreatedAt(s) :
                     Begin(h, Finish([r EXCEPT !.sid = s, !.frame = q,
                                               !.topics = subscribeCustomerToSession({}, s)],
                                     <<"session:restored">>))
    /\ UNCHANGED <<store, published, typing, subscribed, chatAssigned, now>>

\* ------------------------------------------------------------ checkIdleChats
idleThreshold == now - IdleTimeout

\* findMany: waiting or active sessions all of whose messages are older
\* than the threshold, each with the assignedCsId read here
idleChats ==
    {s \in Sessions :
        /\ status[s] \in Open
        /\ \A i \in 1..Len(messages[s]) : messages[s][i].createdAt < idleThreshold}

checkIdleChats(h) ==
    /\ CanStart(h)
    /\ \E q \in Perms(idleChats) :
        LET r == [IdleHandler EXCEPT !.op = "reaper"]
        IN  Begin(h, IF q = <<>>
                       THEN Finish(r, <<>>)
                       ELSE [r EXCEPT !.pc = "rp_upd",
                                      !.qs = [i \in 1..Len(q) |-> QueueItem(q[i], assignedCsId[q[i]])]])
    /\ UNCHANGED <<store, published, typing, subscribed, chatAssigned, now>>

idleUpdate(h) ==
    /\ At(h, {"rp_upd"})
    /\ LET c == hs[h].qs[1] IN
        /\ status' = [status EXCEPT ![c.sid] = "abandoned"]
        /\ resolvedAt' = [resolvedAt EXCEPT ![c.sid] = now]
        /\ Step(h, [hs[h] EXCEPT !.pc = IF c.asg # NoAgent THEN "rp_dec" ELSE "rp_msg"])
    /\ UNCHANGED <<assignedCsId, createdAt, messages, csState, currentChats,
                   maxChats, lastActiveAt, autoAssignEnabled, rating, published, typing, subscribed, chatAssigned, now>>

idleDecrement(h) ==
    /\ At(h, {"rp_dec"})
    /\ currentChats' = [currentChats EXCEPT ![hs[h].qs[1].asg] = @ - 1]
    /\ Step(h, [hs[h] EXCEPT !.pc = "rp_msg"])
    /\ UNCHANGED <<status, assignedCsId, createdAt, resolvedAt, messages,
                   csState, maxChats, lastActiveAt, autoAssignEnabled, rating, published, typing, subscribed, chatAssigned, now>>

idleMessage(h) ==
    /\ At(h, {"rp_msg"})
    /\ MessageCreate(hs[h].qs[1].sid, "system", "idle")
    /\ Step(h, IF Len(hs[h].qs) > 1
                 THEN [hs[h] EXCEPT !.pc = "rp_upd", !.qs = Tail(@)]
                 ELSE Finish(hs[h], <<>>))
    /\ UNCHANGED <<status, assignedCsId, createdAt, resolvedAt, csState,
                   currentChats, maxChats, lastActiveAt, autoAssignEnabled, rating, published, typing, subscribed, chatAssigned, now>>

\* --------------------------------------------------------------------- clock
\* the handler's reply frames are on the socket; its slot is free again
reply(h) ==
    /\ hs[h].pc = "done"
    /\ hs' = [hs EXCEPT ![h] = IdleHandler]
    /\ UNCHANGED <<store, published, typing, subscribed, chatAssigned, now, started,
                   opBudget, client>>

\* one tick is a whole idle timeout, a handler runs for milliseconds: the
\* clock advances between handler runs
Tick ==
    /\ Quiet
    /\ now < MaxClock
    /\ now' = now + 1
    /\ UNCHANGED <<store, published, typing, subscribed, chatAssigned, hs, started,
                   opBudget, client>>

\* the steps of the websocket (and HTTP) handlers
HandlerStep(h) ==
    \/ initChat(h)
    \/ initChatMessage(h)
    \/ autoAssignChat(h)
    \/ assignChatUpdate(h)
    \/ assignChatIncrement(h)
    \/ assignChatMessage(h)
    \/ handleCsAcceptChat(h)
    \/ acceptGetSession(h)
    \/ processQueue(h)
    \/ resolveChat(h)
    \/ resolveChatUpdate(h)
    \/ resolveChatDecrement(h)
    \/ resolveChatMessage(h)
    \/ handleCsTransferChat(h)
    \/ transferChat(h)
    \/ transferChatUpdate(h)
    \/ transferChatDecrement(h)
    \/ transferChatIncrement(h)
    \/ transferChatMessage(h)
    \/ handleCustomerEndChat(h)
    \/ endChat(h)
    \/ endChatUpdate(h)
    \/ endChatDecrement(h)
    \/ endChatMessage(h)
    \/ handleCustomerSendMessage(h)
    \/ handleCsSendMessage(h)
    \/ csSendCheck(h)
    \/ sendMessage(h)
    \/ customerNotify(h)
    \/ handleCsSetStatus(h)
    \/ handleCsTyping(h)
    \/ handleCustomerRating(h)
    \/ submitRating(h)
    \/ submitRatingUpdate(h)
    \/ handleCustomerDisconnect(h)
    \/ handleCsDisconnect(h)
    \/ handleCsConnect(h)
    \/ getActiveChatsForCS(h)
    \/ csConnected(h)
    \/ handleCustomerReconnect(h)
    \/ reply(h)

\* the steps of a run of the idle reaper
ReaperStep(h) ==
    \/ checkIdleChats(h)
    \/ idleUpdate(h)
    \/ idleDecrement(h)
    \/ idleMessage(h)

Next ==
    \/ \E h \in Handlers : HandlerStep(h)
    \/ \E h \in Handlers : ReaperStep(h)
    \/ Tick

Spec == Init /\ [][Next]_vars

\* the engine as index.ts runs it: requests and websocket frames only (no
\* caller of checkIdleChats is started there)
NextServed ==
    \/ \E h \in Handlers : HandlerStep(h)
    \/ Tick

SpecServed == Init /\ [][NextServed]_vars


\* a chat from start to rating: the handlers that create, assign, resolve and
\* rate a session, in a run of MaxOpsRating requests
InitRating ==
    /\ status = [s \in Sessions |-> "none"]
    /\ assignedCsId = [s \in Sessions |-> NoAgent]
    /\ createdAt = [s \in Sessions |-> NoTime]
    /\ resolvedAt = [s \in Sessions |-> NoTime]
    /\ rating = [s \in Sessions |-> NoRating]
    /\ messages = [s \in Sessions |-> <<>>]
    /\ csState \in [Agents -> {"online", "offline"}]
    /\ currentChats = [a \in Agents |-> 0]
    /\ maxChats = [a \in Agents |-> MaxChats]
    /\ lastActiveAt = [a \in Agents |-> FirstActiveAt(a)]
    /\ autoAssignEnabled \in BOOLEAN
    /\ published = [s \in Sessions |-> <<>>]
    /\ typing = [s \in Sessions |-> 0]
    /\ subscribed = [a \in Agents |-> {}]
    /\ chatAssigned = [s \in Sessions |-> 0]
    /\ hs = [h \in Handlers |-> IdleHandler]
    /\ now = 0
    /\ started = 0
    /\ opBudget = MaxOpsRating
    /\ NewWebSocketService

RatingStep(h) ==
    \/ initChat(h)
    \/ initChatMessage(h)
    \/ autoAssignChat(h)
    \/ assignChatUpdate(h)
    \/ assignChatIncrement(h)
    \/ assignChatMessage(h)
    \/ handleCsAcceptChat(h)
    \/ acceptGetSession(h)
    \/ processQueue(h)
    \/ resolveChat(h)
    \/ resolveChatUpdate(h)
    \/ resolveChatDecrement(h)
    \/ resolveChatMessage(h)
    \/ handleCustomerRating(h)
    \/ submitRating(h)
    \/ submitRatingUpdate(h)
    \/ reply(h)

NextRating == \E h \in Handlers : RatingStep(h)

SpecRating == InitRating /\ [][NextRating]_vars


\* the served engine left to itself: MaxOpsUnattended requests
\* (any but a rating, which needs a longer run) arrive, every handler that
\* was started runs to its end and time goes on
InitUnattended ==
    /\ status = [s \in Sessions |-> "none"]
    /\ assignedCsId = [s \in Sessions |-> NoAgent]
    /\ createdAt = [s \in Sessions |-> NoTime]
    /\ resolvedAt = [s \in Sessions |-> NoTime]
    /\ rating = [s \in Sessions |-> NoRating]
    /\ messages = [s \in Sessions |-> <<>>]
    /\ csState \in [Agents -> {"online", "offline"}]
    /\ currentChats = [a \in Agents |-> 0]
    /\ maxChats = [a \in Agents |-> MaxChats]
    /\ lastActiveAt = [a \in Agents |-> FirstActiveAt(a)]
    /\ autoAssignEnabled \in BOOLEAN
    /\ published = [s \in Sessions |-> <<>>]
    /\ typing = [s \in Sessions |-> 0]
    /\ subscribed = [a \in Agents |-> {}]
    /\ chatAssigned = [s \in Sessions |-> 0]
    /\ hs = [h \in Handlers |-> IdleHandler]
    /\ now = 0
    /\ started = 0
    /\ opBudget = MaxOpsUnattended
    /\ NewWebSocketService

UnattendedStep(h) ==
    \/ initChat(h)
    \/ initChatMessage(h)
    \/ autoAssignChat(h)
    \/ assignChatUpdate(h)
    \/ assignChatIncrement(h)
    \/ assignChatMessage(h)
    \/ handleCsAcceptChat(h)
    \/ acceptGetSession(h)
    \/ processQueue(h)
    \/ resolveChat(h)
    \/ resolveChatUpdate(h)
    \/ resolveChatDecrement(h)
    \/ resolveChatMessage(h)
    \/ handleCsTransferChat(h)
    \/ transferChat(h)
    \/ transferChatUpdate(h)
    \/ transferChatDecrement(h)
    \/ transferChatIncrement(h)
    \/ transferChatMessage(h)
    \/ handleCustomerEndChat(h)
    \/ endChat(h)
    \/ endChatUpdate(h)
    \/ endChatDecrement(h)
    \/ endChatMessage(h)
    \/ handleCustomerSendMessage(h)
    \/ handleCsSendMessage(h)
    \/ csSendCheck(h)
    \/ sendMessage(h)
    \/ customerNotify(h)
    \/ handleCsSetStatus(h)
    \/ handleCsTyping(h)
    \/ handleCustomerDisconnect(h)
    \/ handleCsDisconnect(h)
    \/ handleCsConnect(h)
    \/ getActiveChatsForCS(h)
    \/ csConnected(h)
    \/ handleCustomerReconnect(h)
    \/ reply(h)

NextUnattended ==
    \/ \E h \in Handlers : UnattendedStep(h)
    \/ Tick

SpecUnattended ==
    InitUnattended /\ [][NextUnattended]_vars /\ WF_vars(NextUnattended)


\* a store whose writes can fail: the awaited prisma call of a transition
\* rejects, assignChat, resolveChat, transferChat and endChat catch nothing and
\* the catch of the websocket handler answers SERVER_ERROR
WritePcs ==
    {"assign_upd", "assign_inc", "assign_msg", "res_upd", "res_dec", "res_msg",
     "tr_upd", "tr_both", "tr_dec", "tr_inc", "tr_msg",
     "end_upd", "end_dec", "end_msg"}

storeWriteFails(h) ==
    /\ At(h, WritePcs)
    /\ hs[h].op \in {"accept", "resolve", "transfer", "end"}
    /\ Step(h, Finish(hs[h], <<"SERVER_ERROR">>))
    /\ UNCHANGED <<store, published, typing, subscribed, chatAssigned, now>>

\* MaxOpsFaulty requests that start, accept, resolve, transfer or end a chat,
\* with auto-assignment switched off
InitFaulty ==
    /\ status = [s \in Sessions |-> "none"]
    /\ assignedCsId = [s \in Sessions |-> NoAgent]
    /\ createdAt = [s \in Sessions |-> NoTime]
    /\ resolvedAt = [s \in Sessions |-> NoTime]
    /\ rating = [s \in Sessions |-> NoRating]
    /\ messages = [s \in Sessions |-> <<>>]
    /\ csState \in [Agents -> {"online", "offline"}]
    /\ currentChats = [a \in Agents |-> 0]
    /\ maxChats = [a \in Agents |-> MaxChats]
    /\ lastActiveAt = [a \in Agents |-> FirstActiveAt(a)]
    /\ autoAssignEnabled = FALSE
    /\ published = [s \in Sessions |-> <<>>]
    /\ typing = [s \in Sessions |-> 0]
    /\ subscribed = [a \in Agents |-> {}]
    /\ chatAssigned = [s \in Sessions |-> 0]
    /\ hs = [h \in Handlers |-> IdleHandler]
    /\ now = 0
    /\ started = 0
    /\ opBudget = MaxOpsFaulty
    /\ NewWebSocketService

FaultyStep(h) ==
    \/ initChat(h)
    \/ initChatMessage(h)
    \/ handleCsAcceptChat(h)
    \/ acceptGetSession(h)
    \/ assignChatUpdate(h)
    \/ assignChatIncrement(h)
    \/ assignChatMessage(h)
    \/ resolveChat(h)
    \/ resolveChatUpdate(h)
    \/ resolveChatDecrement(h)
    \/ resolveChatMessage(h)
    \/ handleCsTransferChat(h)
    \/ transferChat(h)
    \/ transferChatUpdate(h)
    \/ transferChatDecrement(h)
    \/ transferChatIncrement(h)
    \/ transferChatMessage(h)
    \/ handleCustomerEndChat(h)
    \/ endChat(h)
    \/ endChatUpdate(h)
    \/ endChatDecrement(h)
    \/ endChatMessage(h)
    \/ storeWriteFails(h)
    \/ reply(h)

NextFaulty == \E h \in Handlers : FaultyStep(h)

SpecFaulty == InitFaulty /\ [][NextFaulty]_vars


\* agents that keep one websocket open and also use the HTTP routes:
\* MaxOpsRooms requests that start, assign, resolve or transfer a chat or
\* send a message in it
InitRooms ==
    /\ status = [s \in Sessions |-> "none"]
    /\ assignedCsId = [s \in Sessions |-> NoAgent]
    /\ createdAt = [s \in Sessions |-> NoTime]
    /\ resolvedAt = [s \in Sessions |-> NoTime]
    /\ rating = [s \in Sessions |-> NoRating]
    /\ messages = [s \in Sessions |-> <<>>]
    /\ csState \in [Agents -> {"online", "offline"}]
    /\ currentChats = [a \in Agents |-> 0]
    /\ maxChats = [a \in Agents |-> MaxChats]
    /\ lastActiveAt = [a \in Agents |-> FirstActiveAt(a)]
    /\ autoAssignEnabled \in BOOLEAN
    /\ published = [s \in Sessions |-> <<>>]
    /\ typing = [s \in Sessions |-> 0]
    /\ subscribed = [a \in Agents |-> {}]
    /\ chatAssigned = [s \in Sessions |-> 0]
    /\ hs = [h \in Handlers |-> IdleHandler]
    /\ now = 0
    /\ started = 0
    /\ opBudget = MaxOpsRooms
    /\ NewWebSocketService

RoomsStep(h) ==
    \/ initChat(h)
    \/ initChatMessage(h)
    \/ autoAssignChat(h)
    \/ assignChatUpdate(h)
    \/ assignChatIncrement(h)
    \/ assignChatMessage(h)
    \/ handleCsAcceptChat(h)
    \/ httpAcceptChat(h)
    \/ acceptGetSession(h)
    \/ processQueue(h)
    \/ resolveChat(h)
    \/ httpResolveChat(h)
    \/ resolveChatUpdate(h)
    \/ resolveChatDecrement(h)
    \/ resolveChatMessage(h)
    \/ handleCsTransferChat(h)
    \/ httpTransferChat(h)
    \/ transferChat(h)
    \/ transferChatUpdate(h)
    \/ transferChatDecrement(h)
    \/ transferChatIncrement(h)
    \/ transferChatMessage(h)
    \/ handleCustomerSendMessage(h)
    \/ handleCsSendMessage(h)
    \/ csSendCheck(h)
    \/ sendMessage(h)
    \/ customerNotify(h)
    \/ reply(h)

NextRooms == \E h \in Handlers : RoomsStep(h)

SpecRooms == InitRooms /\ [][NextRooms]_vars


\* requests that arrive one at a time, each after the handler of the one
\* before has returned: chats are started and ended and agents set their
\* status, MaxOpsLone requests in all; a handler that has started runs on
InitLone ==
    /\ status = [s \in Sessions |-> "none"]
    /\ assignedCsId = [s \in Sessions |-> NoAgent]
    /\ createdAt = [s \in Sessions |-> NoTime]
    /\ resolvedAt = [s \in Sessions |-> NoTime]
    /\ rating = [s \in Sessions |-> NoRating]
    /\ messages = [s \in Sessions |-> <<>>]
    /\ csState \in [Agents -> {"online", "offline"}]
    /\ currentChats = [a \in Agents |-> 0]
    /\ maxChats = [a \in Agents |-> MaxChats]
    /\ lastActiveAt = [a \in Agents |-> FirstActiveAt(a)]
    /\ autoAssignEnabled \in BOOLEAN
    /\ published = [s \in Sessions |-> <<>>]
    /\ typing = [s \in Sessions |-> 0]
    /\ subscribed = [a \in Agents |-> {}]
    /\ chatAssigned = [s \in Sessions |-> 0]
    /\ hs = [h \in Handlers |-> IdleHandler]
    /\ now = 0
    /\ started = 0
    /\ opBudget = MaxOpsLone
    /\ NewWebSocketService

LoneStep(h) ==
    \/ Quiet /\ initChat(h)
    \/ initChatMessage(h)
    \/ autoAssignChat(h)
    \/ assignChatUpdate(h)
    \/ assignChatIncrement(h)
    \/ assignChatMessage(h)
    \/ processQueue(h)
    \/ Quiet /\ handleCsSetStatus(h)
    \/ Quiet /\ handleCustomerEndChat(h)
    \/ endChat(h)
    \/ endChatUpdate(h)
    \/ endChatDecrement(h)
    \/ endChatMessage(h)
    \/ reply(h)

NextLone == \E h \in Handlers : LoneStep(h)

SpecLone == InitLone /\ [][NextLone]_vars /\ WF_vars(NextLone)


\* customers that reconnect with their token and start chats, also on a
\* connection that already has a session; MaxOpsCustomer requests in all
InitCustomer ==
    /\ status = [s \in Sessions |-> "none"]
    /\ assignedCsId = [s \in Sessions |-> NoAgent]
    /\ createdAt = [s \in Sessions |-> NoTime]
    /\ resolvedAt = [s \in Sessions |-> NoTime]
    /\ rating = [s \in Sessions |-> NoRating]
    /\ messages = [s \in Sessions |-> <<>>]
    /\ csState \in [Agents -> {"online", "offline"}]
    /\ currentChats = [a \in Agents |-> 0]
    /\ maxChats = [a \in Agents |-> MaxChats]
    /\ lastActiveAt = [a \in Agents |-> FirstActiveAt(a)]
    /\ autoAssignEnabled \in BOOLEAN
    /\ published = [s \in Sessions |-> <<>>]
    /\ typing = [s \in Sessions |-> 0]
    /\ subscribed = [a \in Agents |-> {}]
    /\ chatAssigned = [s \in Sessions |-> 0]
    /\ hs = [h \in Handlers |-> IdleHandler]
    /\ now = 0
    /\ started = 0
    /\ opBudget = MaxOpsCustomer
    /\ NewWebSocketService

CustomerStep(h) ==
    \/ initChat(h)
    \/ handleCustomerStartChat(h)
    \/ initChatMessage(h)
    \/ autoAssignChat(h)
    \/ assignChatUpdate(h)
    \/ assignChatIncrement(h)
    \/ assignChatMessage(h)
    \/ handleCustomerReconnect(h)
    \/ handleCustomerSendMessage(h)
    \/ sendMessage(h)
    \/ customerNotify(h)
    \/ reply(h)

NextCustomer == \E h \in Handlers : CustomerStep(h)

SpecCustomer == InitCustomer /\ [][NextCustomer]_vars


\* ------------------------------------------------ dashboard WebSocketService
\* config defaults of the constructor
autoReconnect == TRUE
maxReconnectAttempts == 10

\* close codes a close event can carry: normal closure, abnormal closure
CloseCodes == {1000, 1006}

\* isConnected() on the given status, socket and ready states
isConnected(st, w, rs) == st = "connected" /\ w # NoSocket /\ rs[w] = "OPEN"

\* the socket that new WebSocket(url) creates next
Fresh(k) == readyState[k] = "NONE" /\ \A j \in Sockets : j < k => readyState[j] # "NONE"

\* WebSocket.close(): an open or connecting socket starts closing
close(rs, w) == IF rs[w] \in {"CONNECTING", "OPEN"} THEN [rs EXCEPT ![w] = "CLOSING"] ELSE rs

\* connect(), called while the current socket is not open (it returns at once
\* when it is): status connecting, a new socket with the handlers attached;
\* the application calls it when the service has no socket or a closed one
connect ==
    /\ ~(ws # NoSocket /\ readyState[ws] = "OPEN")
    /\ IF ws = NoSocket THEN TRUE ELSE readyState[ws] = "CLOSED"
    /\ \E k \in Sockets :
        /\ Fresh(k)
        /\ ws' = k
        /\ readyState' = [readyState EXCEPT ![k] = "CONNECTING"]
    /\ wsStatus' = "connecting"
    /\ UNCHANGED <<pendingMessages, reconnectTimer, reconnectAttempts,
                   transmitted, sendCount, engine>>

\* disconnect(): the timer is cleared, the socket closed and forgotten
disconnect ==
    /\ reconnectTimer' = FALSE
    /\ reconnectAttempts' = 0
    /\ IF ws # NoSocket
         THEN readyState' = close(readyState, ws) /\ ws' = NoSocket
         ELSE UNCHANGED <<readyState, ws>>
    /\ wsStatus' = "disconnected"
    /\ UNCHANGED <<pendingMessages, transmitted, sendCount, engine>>

\* updateToken(token) while connected: disconnect() and then connect(), in
\* one synchronous call
updateToken ==
    /\ isConnected(wsStatus, ws, readyState)
    /\ \E k \in Sockets :
        /\ Fresh(k)
        /\ ws' = k
        /\ readyState' = [close(readyState, ws) EXCEPT ![k] = "CONNECTING"]
    /\ reconnectTimer' = FALSE
    /\ reconnectAttempts' = 0
    /\ wsStatus' = "connecting"
    /\ UNCHANGED <<pendingMessages, transmitted, sendCount, engine>>

\* the open event of socket k and its onopen handler: status connected, the
\* attempts reset, flushPendingMessages() (which sends on this.ws)
onopen(k) ==
    /\ readyState[k] = "CONNECTING"
    /\ readyState' = [readyState EXCEPT ![k] = "OPEN"]
    /\ wsStatus' = "connected"
    /\ reconnectAttempts' = 0
    /\ IF isConnected("connected", ws, readyState') /\ pendingMessages # <<>>
         THEN /\ transmitted' = transmitted \o pendingMessages
              /\ pendingMessages' = <<>>
         ELSE UNCHANGED <<transmitted, pendingMessages>>
    /\ UNCHANGED <<ws, reconnectTimer, sendCount, engine>>

\* scheduleReconnect(): the status and the timer it leaves
scheduleReconnect(st) ==
    IF reconnectAttempts >= maxReconnectAttempts
      THEN wsStatus' = "error" /\ UNCHANGED reconnectTimer
      ELSE wsStatus' = st /\ reconnectTimer' = TRUE

\* the close event of socket k (after the error event when the connection
\* failed) and its onclose handler; a connecting socket that fails closes
\* abnormally
onclose(k, code) ==
    /\ readyState[k] \in {"CONNECTING", "OPEN", "CLOSING"}
    /\ readyState[k] = "CONNECTING" => code # 1000
    /\ readyState' = [readyState EXCEPT ![k] = "CLOSED"]
    /\ IF code # 1000 /\ autoReconnect
         THEN scheduleReconnect("disconnected")
         ELSE wsStatus' = "disconnected" /\ UNCHANGED reconnectTimer
    /\ UNCHANGED <<ws, pendingMessages, reconnectAttempts, transmitted,
                   sendCount, engine>>

\* the timeout set by scheduleReconnect fires: attempts++, connect()
reconnectTimeout ==
    /\ reconnectTimer
    /\ reconnectTimer' = FALSE
    /\ reconnectAttempts' = reconnectAttempts + 1
    /\ IF ws # NoSocket /\ readyState[ws] = "OPEN"
         THEN UNCHANGED <<ws, readyState, wsStatus>>
         ELSE /\ \E k \in Sockets :
                  /\ Fresh(k)
                  /\ ws' = k
                  /\ readyState' = [readyState EXCEPT ![k] = "CONNECTING"]
              /\ wsStatus' = "connecting"
    /\ UNCHANGED <<pendingMessages, transmitted, sendCount, engine>>

\* send(event, data): the messages are numbered in the order of the calls
send ==
    /\ sendCount < MaxSends
    /\ sendCount' = sendCount + 1
    /\ IF isConnected(wsStatus, ws, readyState)
         THEN /\ transmitted' = Append(transmitted, sendCount + 1)
              /\ UNCHANGED pendingMessages
         ELSE /\ pendingMessages' = Append(pendingMessages, sendCount + 1)
              /\ UNCHANGED transmitted
    /\ UNCHANGED <<ws, readyState, wsStatus, reconnectTimer, reconnectAttempts,
                   engine>>

\* the dashboard's client next to an idle engine
InitClient ==
    /\ Init
    /\ csState = [a \in Agents |-> "offline"]
    /\ ~autoAssignEnabled

NextClient ==
    \/ connect
    \/ disconnect
    \/ updateToken
    \/ \E k \in Sockets : onopen(k)
    \/ \E k \in Sockets, code \in CloseCodes : onclose(k, code)
    \/ reconnectTimeout
    \/ send

SpecClient == InitClient /\ [][NextClient]_vars

\* ==================================================================== claims
ActiveOf(a) == {s \in Sessions : status[s] = "active" /\ assignedCsId[s] = a}

\* C1: each agent's current_chats equals the number of active sessions
\* assigned to it. Stated for the states in which no handler is mid-way,
\* where the claim must hold however the store steps are grouped.
C1_CountersMatchSessions ==
    Quiet => \A a \in Agents : currentChats[a] = Cardinality(ActiveOf(a))

\* C2: an agent's current_chats never exceeds its max_chats. Stated for the
\* states in which every handler has returned, so that the excess is one
\* that stays in the store.
C2_WithinCapacity ==
    Quiet => \A a \in Agents : currentChats[a] <= maxChats[a]

\* C3: two agents racing cs:accept_chat for one waiting session: exactly one
\* assignment commits. A handler has committed once its session update is
\* written; no two accepts of different agents are both past that point for
\* the same session.
AcceptCommitted(h) ==
    /\ hs[h].op = "accept"
    /\ \/ hs[h].pc \in {"assign_inc", "assign_msg"}
       \/ hs[h].pc = "done" /\ hs[h].out = <<"chat:accepted">>

C3_OneAcceptCommits ==
    \A h1, h2 \in Handlers :
        (h1 # h2 /\ AcceptCommitted(h1) /\ AcceptCommitted(h2) /\ hs[h1].sid = hs[h2].sid)
            => hs[h1].cs = hs[h2].cs

\* C4: resolved and abandoned are terminal: no step changes the status, the
\* assigned agent or resolved_at of a session that is resolved or abandoned.
C4_TerminalIsFinal ==
    [][\A s \in Sessions :
          status[s] \in Terminal =>
              /\ status'[s] = status[s]
              /\ assignedCsId'[s] = assignedCsId[s]
              /\ resolvedAt'[s] = resolvedAt[s]]_vars

\* C5: every message of a resolved or abandoned session was appended before
\* the session became resolved or abandoned.
C5_NoMessageAfterEnd ==
    \A s \in Sessions :
        status[s] \in Terminal =>
            \A i \in 1..Len(messages[s]) : ~messages[s][i].late

\* C6: a cs:resolve_chat by the assigned agent on a session that is already
\* resolved, sent when nothing else is running, fails at once with an error.
C6_SecondResolveRejected ==
    [][\A h \in Handlers :
          (/\ Quiet
           /\ hs'[h].op = "resolve"
           /\ status[hs'[h].sid] = "resolved"
           /\ assignedCsId[hs'[h].sid] = hs'[h].cs)
              => (hs'[h].pc = "done" /\ hs'[h].out = <<"RESOLVE_FAILED">>)]_vars

\* C7: no agent's current_chats is ever negative. Stated for the states in
\* which every handler has returned.
C7_NeverNegative ==
    Quiet => \A a \in Agents : currentChats[a] >= 0

\* C8: an active session has an assigned agent whose current_chats is at
\* least 1; a waiting session has no assigned agent.
C8_ActiveHasCountedAgent ==
    \A s \in Sessions :
        /\ status[s] = "active" =>
              (assignedCsId[s] # NoAgent /\ currentChats[assignedCsId[s]] >= 1)
        /\ status[s] = "waiting" => assignedCsId[s] = NoAgent

\* C9: chat:message events reach the subscribers of session:<id> in the
\* order in which the messages were appended to the store.
C9_PublishedInAppendOrder ==
    \A s \in Sessions :
        \A i, j \in 1..Len(published[s]) :
            i < j => published[s][i] < published[s][j]

\* C10: a transfer between two different agents is atomic: the step that
\* gives the session to the target also moves both counters and appends
\* the system message, and changes nothing else.
C10_TransferAtomic ==
    [][\A h \in Handlers :
          (/\ hs[h].op = "transfer"
           /\ hs[h].cs # hs[h].to
           /\ assignedCsId'[hs[h].sid] # assignedCsId[hs[h].sid]
           /\ hs'[h] # hs[h])
              => /\ assignedCsId'[hs[h].sid] = hs[h].to
                 /\ status'[hs[h].sid] = "active"
                 /\ currentChats' = [currentChats EXCEPT ![hs[h].cs] = @ - 1,
                                                         ![hs[h].to] = @ + 1]
                 /\ Len(messages'[hs[h].sid]) = Len(messages[hs[h].sid]) + 1]_vars

\* a handler that starts in this step, refuses with the given error code and
\* leaves the store and the session topics as they were
Refused(h, code) ==
    /\ hs'[h].pc = "done"
    /\ hs'[h].out = <<code>>
    /\ UNCHANGED <<store, published, typing, subscribed, chatAssigned>>

\* C11: a cs:transfer_chat whose target is not online fails with
\* TARGET_NOT_ONLINE, one whose target is online with current_chats >=
\* max_chats fails with TARGET_AT_CAPACITY; either way the session, the
\* counters, the statuses and the messages are unchanged.
C11_TransferTargetChecked ==
    [][\A h \in Handlers :
          (Free(h) /\ hs'[h].op = "transfer") =>
              /\ csState[hs'[h].to] # "online" => Refused(h, "TARGET_NOT_ONLINE")
              /\ (csState[hs'[h].to] = "online"
                    /\ currentChats[hs'[h].to] >= maxChats[hs'[h].to])
                   => Refused(h, "TARGET_AT_CAPACITY")]_vars

\* C11 witness: an agent holding a session was refused a transfer to another
\* agent that is online and full, and still holds the session
C11_TransferRefusedAtCapacity ==
    \E h \in Handlers :
        /\ hs[h].op = "transfer" /\ hs[h].pc = "done"
        /\ hs[h].out = <<"TARGET_AT_CAPACITY">>
        /\ hs[h].cs # hs[h].to
        /\ status[hs[h].sid] = "active"
        /\ assignedCsId[hs[h].sid] = hs[h].cs

\* C12: a cs:accept_chat by an online agent whose current_chats has reached
\* max_chats fails with AT_CAPACITY and changes neither the counter nor the
\* session.
C12_AcceptAtCapacityRefused ==
    [][\A h \in Handlers :
          (/\ Free(h) /\ hs'[h].op = "accept"
           /\ csState[hs'[h].cs] = "online"
           /\ currentChats[hs'[h].cs] >= maxChats[hs'[h].cs])
              => Refused(h, "AT_CAPACITY")]_vars

\* C12 witness: an online agent with current_chats = max_chats was refused a
\* session that is waiting
C12_AcceptRefusedWhenFull ==
    \E h \in Handlers :
        /\ hs[h].op = "accept" /\ hs[h].pc = "done"
        /\ hs[h].out = <<"AT_CAPACITY">>
        /\ csState[hs[h].cs] = "online"
        /\ currentChats[hs[h].cs] = maxChats[hs[h].cs]
        /\ status[hs[h].sid] = "waiting"

\* C13: every cs:* event other than cs:accept_chat sent by an agent who is
\* not the session's assigned agent is rejected. No step of a
\* cs:send_message, cs:typing, cs:resolve_chat or cs:transfer_chat handler
\* taken while the session is active with another agent changes the store or
\* publishes on the session's topic.
AgentEvents == {"cssend", "typing", "resolve", "transfer"}

C13_OnlyAssignedAgentActs ==
    [][\A h \in Handlers :
          (/\ hs'[h] # hs[h]
           /\ hs'[h].op \in AgentEvents
           /\ status[hs'[h].sid] = "active"
           /\ assignedCsId[hs'[h].sid] \notin {NoAgent, hs'[h].cs})
              => UNCHANGED <<store, published, typing, subscribed, chatAssigned>>]_vars

\* C14: a session with a rating is resolved and its rating is in 1..5.
C14_RatedIsResolved ==
    \A s \in Sessions :
        rating[s] # NoRating => (status[s] = "resolved" /\ rating[s] \in 1..5)

\* C15: closing a customer connection changes no stored state: status,
\* assigned agent, messages and counters are what they were before.
C15_CustomerCloseKeepsStore ==
    [][\A h \in Handlers :
          (hs'[h] # hs[h] /\ hs'[h].op = "disconnect") => UNCHANGED store]_vars

\* C15 witness: a customer whose session is active has disconnected, the
\* agent was told, and the session is still active
C15_ClosedWhileActive ==
    \E h \in Handlers :
        /\ hs[h].op = "disconnect" /\ hs[h].pc = "done"
        /\ hs[h].out = <<"chat:customer_left">>
        /\ status[hs[h].sid] = "active"

\* C16: when an agent goes offline, by cs:set_status offline or by its
\* connection closing, its state becomes offline while no session row and
\* no counter changes (sessions keep status and agent, current_chats stays); the
\* cs:connected frame of a later connect lists the agent's active sessions.
OnlyWentOffline(a) ==
    /\ csState' = [csState EXCEPT ![a] = "offline"]
    /\ UNCHANGED <<status, assignedCsId, createdAt, resolvedAt, rating, messages,
                   currentChats, maxChats>>

C16_OfflineKeepsAssignments ==
    [][\A h \in Handlers :
          /\ (Free(h) /\ hs'[h].op = "csdisconnect") => OnlyWentOffline(hs'[h].cs)
          /\ (Free(h) /\ hs'[h].op = "status" /\ csState'[hs'[h].cs] = "offline")
                => OnlyWentOffline(hs'[h].cs)
          /\ (hs[h].op = "connect" /\ hs[h].pc = "con_act" /\ hs'[h] # hs[h])
                => hs'[h].act = ActiveOf(hs[h].cs)]_vars

\* C16 witness: an agent that is offline and still holds an active session
\* has connected again and been sent that session in cs:connected
C16_ReconnectedWithChats ==
    \E h \in Handlers :
        /\ hs[h].op = "connect" /\ hs[h].pc = "done"
        /\ hs[h].out = <<"cs:connected">>
        /\ csState[hs[h].cs] = "offline"
        /\ currentChats[hs[h].cs] = 1
        /\ hs[h].act # {}
        /\ hs[h].act = ActiveOf(hs[h].cs)

\* C17: a customer connection opened with the token of an existing session
\* is bound to that session and sent one session:restored frame whose message
\* list is the session's messages in append order, and the store is left as
\* it was; an unknown token is answered SESSION_NOT_FOUND and binds nothing.
AppendOrder(s) == [i \in 1..Len(messages[s]) |-> i]

C17_RestoredInAppendOrder ==
    [][\A h \in Handlers :
          (Free(h) /\ hs'[h].op = "reconnect") =>
              /\ UNCHANGED store
              /\ hs'[h].pc = "done"
              /\ IF hs'[h].sid = NoSession
                   THEN hs'[h].out = <<"SESSION_NOT_FOUND">>
                   ELSE /\ hs'[h].out = <<"session:restored">>
                        /\ status[hs'[h].sid] # "none"
                        /\ hs'[h].frame = AppendOrder(hs'[h].sid)]_vars

\* C18: when customer:start_chat has completed, the session exists under the
\* returned token and its message list is exactly the one system welcome
\* message, whether or not an agent was available. Stated for a start_chat
\* that is the only request the engine has received.
C18_OnlyWelcomeAfterStart ==
    \A h \in Handlers :
        (started = 1 /\ hs[h].op = "start" /\ hs[h].pc = "done") =>
            /\ status[hs[h].sid] # "none"
            /\ Len(messages[hs[h].sid]) = 1
            /\ messages[hs[h].sid][1].senderType = "system"
            /\ messages[hs[h].sid][1].kind = "started"

\* C19: the frames customer:start_chat sends to the customer's connection
\* are chat:started first, then chat:assigned (an agent was available) or
\* chat:queue_position (none was).
C19_StartedComesFirst ==
    \A h \in Handlers :
        (hs[h].op = "start" /\ hs[h].pc = "done") =>
            hs[h].out \in {<<"chat:started", "chat:assigned">>,
                           <<"chat:started", "chat:queue_position">>}

\* C20: auto-assignment is FIFO: the dispatcher (the auto-assign of
\* start_chat and processQueue) never assigns a session while a session with
\* an earlier created_at is waiting.
DispatcherOps == {"start", "status", "resolve"}

C20_AutoAssignFifo ==
    [][\A h \in Handlers :
          (/\ hs[h].op \in DispatcherOps
           /\ hs[h].pc = "assign_upd"
           /\ hs'[h].pc = "assign_inc")
              => \A t \in Sessions :
                    status[t] = "waiting" => createdAt[t] >= createdAt[hs[h].asid]]_vars

\* C21: every release of agent capacity re-runs the dispatcher. When a
\* resolve, a transfer-out or a customer:end_chat has completed and nothing
\* else is running, no session is waiting while an agent is online with
\* current_chats < max_chats (auto-assign enabled).
ReleaseOps == {"resolve", "transfer", "end", "reaper"}

Released(h) ==
    /\ hs[h].op \in ReleaseOps
    /\ hs[h].pc = "done"
    /\ hs[h].out \in {<<"chat:resolved">>, <<"chat:transferred_out">>, <<"chat:ended">>, <<>>}
    /\ \A g \in Handlers \ {h} : Free(g)

C21_ReleaseRunsDispatcher ==
    \A h \in Handlers :
        (autoAssignEnabled /\ Released(h)) => (WaitingSet = {} \/ csWithCapacity = {})

\* C22: an idle-reaper run at time T picks a waiting or active session
\* exactly when T >= last_message_at + chat_idle_timeout: a run at exactly
\* that time abandons the session, an earlier run leaves it alone.
LastMessageAt(s) == messages[s][Len(messages[s])].createdAt

C22_ReapedFromTimeoutOn ==
    [][\A h \in Handlers :
          (Free(h) /\ hs'[h].op = "reaper") =>
              \A s \in Sessions :
                  (status[s] \in Open /\ messages[s] # <<>>) =>
                      ((\E i \in 1..Len(hs'[h].qs) : hs'[h].qs[i].sid = s)
                          <=> now >= LastMessageAt(s) + IdleTimeout)]_vars

\* C23: when the idle reaper abandons a session, the session becomes
\* abandoned with resolved_at set, one system message is appended, the
\* counter of the agent of an active session goes down by exactly 1 (no
\* counter changes for a waiting session), and chat:ended is published for
\* the session (out holds what the run has sent or published).
C23_ReaperAbandons ==
    [][\A h \in Handlers :
          (hs[h].op = "reaper" /\ hs'[h] # hs[h] /\ hs[h].pc # "done") =>
              LET c == hs[h].qs[1] IN
              /\ hs[h].pc = "rp_upd" =>
                    /\ status'[c.sid] = "abandoned"
                    /\ resolvedAt'[c.sid] = now
                    /\ hs'[h].pc = IF c.asg # NoAgent THEN "rp_dec" ELSE "rp_msg"
              /\ hs[h].pc = "rp_dec" =>
                    currentChats' = [currentChats EXCEPT ![c.asg] = @ - 1]
              /\ hs[h].pc # "rp_dec" => currentChats' = currentChats
              /\ hs[h].pc = "rp_msg" =>
                    /\ Len(messages'[c.sid]) = Len(messages[c.sid]) + 1
                    /\ messages'[c.sid][Len(messages'[c.sid])].senderType = "system"
                    /\ \E i \in 1..Len(hs'[h].out) : hs'[h].out[i] = "chat:ended"]_vars

\* C24: a waiting or active session that receives no further message is
\* eventually abandoned by the periodic idle reaper, without any client
\* action: every session that is open and whose last message is older than
\* the idle timeout is later not open.
C24_IdleEventuallyAbandoned ==
    \A s \in Sessions :
        (/\ status[s] \in Open
         /\ messages[s] # <<>>
         /\ now > LastMessageAt(s) + IdleTimeout) ~> (status[s] \notin Open)

\* C25: a customer:send_message on the connection's own session with a
\* content that is not blank goes on to the insert when the session is waiting
\* or active, and is refused with SEND_FAILED, the store untouched, when it is
\* resolved or abandoned; the insert appends exactly one customer message and
\* the handler ends with message:sent.
C25_CustomerSendByStatus ==
    [][\A h \in Handlers :
        LET s == hs'[h].sid
            t == hs[h].sid
        IN  /\ (/\ Free(h) /\ hs'[h].op = "send"
                /\ hs'[h].fsid = s /\ trim(hs'[h].content) # <<>>)
                 => IF status[s] \in {"waiting", "active"}
                      THEN /\ hs'[h].pc = "snd_ins" /\ hs'[h].out = <<>>
                           /\ UNCHANGED <<store, published>>
                      ELSE Refused(h, "SEND_FAILED")
            /\ (hs[h].op = "send" /\ hs[h].pc = "snd_ins" /\ hs'[h] # hs[h])
                 => /\ Len(messages'[t]) = Len(messages[t]) + 1
                    /\ SubSeq(messages'[t], 1, Len(messages[t])) = messages[t]
                    /\ messages'[t][Len(messages'[t])].senderType = "customer"
                    /\ \A u \in Sessions \ {t} : messages'[u] = messages[u]
            /\ (hs[h].op = "send" /\ hs[h].pc = "snd_sess" /\ hs'[h] # hs[h])
                 => /\ hs'[h].pc = "done" /\ hs'[h].out = <<"message:sent">>
                    /\ messages' = messages]_vars

C25_SentWhileWaiting ==
    \E h \in Handlers :
        /\ hs[h].op = "send" /\ hs[h].pc = "done"
        /\ hs[h].out = <<"message:sent">>
        /\ status[hs[h].sid] = "waiting"
        /\ messages[hs[h].sid][Len(messages[hs[h].sid])].senderType = "customer"

\* C26: a customer:send_message or customer:end_chat whose sessionId is not
\* the connection's session is refused with INVALID_SESSION, and a
\* send_message (customer's or agent's) whose content is blank with
\* EMPTY_MESSAGE; the refusal appends no message, changes no session and no
\* counter and publishes nothing.
C26_ContractViolationRefused ==
    [][\A h \in Handlers :
        /\ (/\ Free(h) /\ hs'[h].op \in {"send", "end"}
            /\ hs'[h].fsid # hs'[h].sid)
             => Refused(h, "INVALID_SESSION")
        /\ (/\ Free(h) /\ hs'[h].op = "send"
            /\ hs'[h].fsid = hs'[h].sid /\ trim(hs'[h].content) = <<>>)
             => Refused(h, "EMPTY_MESSAGE")
        /\ (Free(h) /\ hs'[h].op = "cssend" /\ trim(hs'[h].content) = <<>>)
             => Refused(h, "EMPTY_MESSAGE")]_vars

C26_WrongSessionRefused ==
    \E h \in Handlers :
        /\ hs[h].op = "send" /\ hs[h].pc = "done"
        /\ hs[h].fsid \in Sessions \ {hs[h].sid}
        /\ status[hs[h].sid] = "active"
        /\ hs[h].out = <<"INVALID_SESSION">>

\* the awaited write of handler h has failed: h leaves a write step for its
\* reply and the step writes nothing
WriteFailed(h) ==
    /\ hs[h].pc \in WritePcs
    /\ hs'[h].pc = "done"
    /\ UNCHANGED store

FailedCodes ==
    {<<"ACCEPT_FAILED">>, <<"ASSIGN_FAILED">>, <<"RESOLVE_FAILED">>,
     <<"TRANSFER_FAILED">>, <<"END_FAILED">>}

\* the store as the first request left it: the session waiting and unassigned
\* with its welcome message, no agent counting a chat
AsBeforeTransition(s) ==
    /\ status[s] = "waiting" /\ assignedCsId[s] = NoAgent
    /\ resolvedAt[s] = NoTime
    /\ Len(messages[s]) = 1
    /\ \A a \in Agents : currentChats[a] = 0

\* C27: a store write that fails at any step of a transition leaves the
\* session's status and agent, the counters and the messages as they were
\* before the transition began, and the caller gets a *_FAILED code. Stated
\* for the second request of a run, an accept or an end_chat of the waiting
\* session the first request started, with no other handler under way.
C27_FailedWriteLeavesStore ==
    [][\A h \in Handlers :
        (/\ WriteFailed(h) /\ started = 2 /\ hs[h].op \in {"accept", "end"}
         /\ \A g \in Handlers \ {h} : Free(g))
          => /\ AsBeforeTransition(hs[h].sid)
             /\ hs'[h].out \in FailedCodes]_vars

\* C28: each accepted customer:send_message or cs:send_message on an active
\* session appends exactly one message and publishes chat:message for it
\* exactly once on session:<id>, and the publication reaches the assigned
\* agent's connection: that connection is subscribed to the topic when the
\* message is published. Stated for a send that runs with no other handler
\* under way.
C28_OneAppendOnePublication ==
    [][\A h \in Handlers :
        LET s == hs[h].sid
            stepped == /\ hs'[h] # hs[h] /\ status[s] = "active"
                       /\ \A g \in Handlers \ {h} : Free(g)
        IN  /\ (hs[h].op \in {"send", "cssend"} /\ hs[h].pc = "snd_ins" /\ stepped)
                 => /\ Len(messages'[s]) = Len(messages[s]) + 1
                    /\ SubSeq(messages'[s], 1, Len(messages[s])) = messages[s]
            /\ (hs[h].op = "send" /\ hs[h].pc = "snd_ins" /\ stepped)
                 => published' = published
            /\ (hs[h].op = "cssend" /\ hs[h].pc = "snd_ins" /\ stepped)
                 => published' = [published EXCEPT ![s] = Append(@, Len(messages'[s]))]
            /\ (hs[h].op = "send" /\ hs[h].pc = "snd_sess" /\ stepped)
                 => published' = [published EXCEPT ![s] = Append(@, hs[h].mid)]
            /\ (hs[h].op \in {"send", "cssend"} /\ stepped /\ published'[s] # published[s])
                 => /\ assignedCsId[s] # NoAgent
                    /\ s \in subscribed[assignedCsId[s]]]_vars

\* C29: in every quiescent state the websocket of the agent assigned to an
\* active session is subscribed to session:<id>, however the agent came to
\* own the session (websocket accept, HTTP accept, auto-assignment, transfer).
C29_OwnerSubscribed ==
    Quiet =>
        \A s \in Sessions :
            (status[s] = "active" /\ assignedCsId[s] # NoAgent)
              => s \in subscribed[assignedCsId[s]]

\* C30: when an agent's resolve or transfer of a session goes through, on
\* the websocket or over HTTP, the agent's websocket is no longer subscribed
\* to session:<id>.
C30_DepartedUnsubscribed ==
    [][\A h \in Handlers :
        (/\ hs[h].op \in {"resolve", "httpresolve", "transfer", "httptransfer"}
         /\ hs[h].pc \in {"res_msg", "tr_msg"}
         /\ hs'[h] # hs[h])
          => hs[h].sid \notin subscribed'[hs[h].cs]]_vars

\* C31: after the close handler of an agent's connection has run, every
\* session topic the connection was subscribed to (by accept, auto-assignment
\* or connect) has been unsubscribed.
C31_ClosedSocketUnsubscribed ==
    \A h \in Handlers :
        (hs[h].op = "csdisconnect" /\ hs[h].pc = "done") => hs[h].topics = {}

\* the connection a running handler's frame came in on: the customer's
\* connection bound to the session, or the agent's websocket
CustomerFrameOps == {"send", "end"}
CsFrameOps == {"status", "accept", "cssend", "typing", "resolve", "transfer"}

ConnectionOf(r) ==
    IF r.op \in CustomerFrameOps THEN <<"customer", r.sid>>
    ELSE IF r.op \in CsFrameOps THEN <<"cs", r.cs>>
    ELSE <<"none", 0>>

Running(h) == hs[h].pc \notin {"idle", "done"}

\* C32: the frames of one connection are handled one at a time: no two
\* handlers of frames received on the same connection are under way together.
C32_OneFrameAtATime ==
    \A h, g \in Handlers :
        (h # g /\ Running(h) /\ Running(g) /\ ConnectionOf(hs[h])[1] # "none")
          => ConnectionOf(hs[h]) # ConnectionOf(hs[g])

\* C33: autoAssignChat assigns to an agent that is online with
\* currentChats < maxChats and has the lowest currentChats of all such
\* agents and, among those tied on currentChats, the earliest lastActiveAt;
\* when there is no such agent it assigns nothing.
C33_LeastLoadedEarliestActive ==
    [][\A h \in Handlers :
        (hs[h].pc = "auto_find" /\ hs'[h] # hs[h])
          => IF csWithCapacity = {}
               THEN hs'[h].pc # "assign_upd" /\ UNCHANGED store
               ELSE /\ hs'[h].pc = "assign_upd"
                    /\ hs'[h].acs \in csWithCapacity
                    /\ \A b \in csWithCapacity :
                         /\ currentChats[hs'[h].acs] <= currentChats[b]
                         /\ (currentChats[hs'[h].acs] = currentChats[b])
                              => lastActiveAt[hs'[h].acs] <= lastActiveAt[b]]_vars

\* C34: when the dispatcher comes to commit the assignment of a session that
\* is no longer waiting (accepted, assigned or ended since the queue was
\* read), it assigns nothing and changes no counter: the step leaves the
\* sessions, the counters and the messages alone and no counter increment
\* follows it.
C34_DispatcherSkipsClaimed ==
    [][\A h \in Handlers :
        (/\ hs[h].op \in DispatcherOps
         /\ hs[h].pc = "assign_upd" /\ hs'[h] # hs[h]
         /\ status[hs[h].asid] # "waiting")
          => /\ UNCHANGED <<status, assignedCsId, currentChats, messages>>
             /\ hs'[h].pc \notin {"assign_inc", "assign_msg"}]_vars

\* assignments of session s so far: assignChat writes one join message each
Joined(s) ==
    Cardinality({i \in 1..Len(messages[s]) : messages[s][i].kind = "joined"})

\* chat:assigned frames a returning handler is sending to the customer of s
DirectAssigned(s) ==
    Cardinality({h \in Handlers :
        /\ hs[h].pc = "done" /\ hs[h].op = "start" /\ hs[h].sid = s
        /\ \E i \in 1..Len(hs[h].out) : hs[h].out[i] = "chat:assigned"})

\* C37: for each assignment of a session the customer's connection gets
\* exactly one chat:assigned event (and the agent one chat:new_assigned): the
\* chat:assigned events published on session:<id> and sent on the customer's
\* socket are as many as the assignments made.
C37_OneAssignedEventEach ==
    \A s \in Sessions : chatAssigned[s] + DirectAssigned(s) = Joined(s)

\* a cs:set_status handler that went online is returning
WentOnline(h) ==
    /\ hs[h].op = "status" /\ hs[h].pc = "done"
    /\ hs[h].out = <<"status:updated", "queue:update">>

C36_OneSessionPerConnection ==
    \A h \in Handlers :
        (/\ hs[h].op \in {"start", "reconnect"} /\ hs[h].pc = "done"
         /\ hs[h].sid # NoSession)
          => hs[h].topics = {hs[h].sid}

\* C38: WebSocketService transmits every message passed to send() exactly
\* once and in the order of the calls: the messages transmitted so far followed
\* by the pending ones are the messages sent, in order; and while the current
\* socket is open nothing is pending, because what was queued has been
\* flushed when the socket opened and what is sent since goes out at once.
C38_SentOnceInOrder ==
    /\ transmitted \o pendingMessages = [i \in 1..sendCount |-> i]
    /\ (ws # NoSocket /\ readyState[ws] = "OPEN") => pendingMessages = <<>>

\* C39: whenever the current socket of WebSocketService is open, status is
\* connected; and the close event of a socket that disconnect() closed and
\* connect() has replaced changes neither the status nor the reconnect timer.
C39_StaleCloseIgnored ==
    /\ [](ws # NoSocket /\ readyState[ws] = "OPEN" => wsStatus = "connected")
    /\ [][\A k \in Sockets :
            (/\ readyState[k] = "CLOSING" /\ readyState'[k] = "CLOSED"
             /\ ws # NoSocket /\ ws # k)
              => (wsStatus' = wsStatus /\ reconnectTimer' = reconnectTimer)]_vars

====
